---- MODULE Spec2Model ----
(***************************************************************************)
(* Veo Studio: the generation session of src/App.tsx and the result view   *)
(* of src/components/VideoResult.tsx as a state machine.                   *)
(*                                                                         *)
(* The React state of App is the session record (appState, videoUrl, ...). *)
(* Every event handler is one action; an async handler is one action per   *)
(* synchronous segment (up to the next await), and the promise it awaits   *)
(* is settled by an action of its own, with the outcome drawn from a small *)
(* set.  Strings are sequences of symbols and String.includes is a real    *)
(* sub-sequence search.                                                    *)
(***************************************************************************)
EXTENDS Integers, Sequences, FiniteSets, Bags, TLC

\* ------------------------------------------------------------------ bounds
\* invocations of the async handlers (handleGenerate,
\* handleApiKeyDialogContinue) that have not run to their end, at a time
MaxPending == 2
\* pieces a thrown message or an image prompt is put together from
MaxChunks == 3
\* bytes of a speech payload handed to decodeAudioData directly
MaxBytes == 4

\* ------------------------------------------------------------- null values
\* null of a useState<... | null>; every nullable value is a record, so that
\* it can be compared with Null
Null == [null |-> TRUE]

\* ---------------------------------------------------------------- strings
\* String.prototype.includes: sub occurs in s as a contiguous run
Includes(s, sub) ==
  \E i \in 0..(Len(s) - Len(sub)) :
    \A j \in 1..Len(sub) : s[i + j] = sub[j]

\* String.prototype.toLowerCase, symbol by symbol
LowerSym(c) ==
  CASE c = "PERMISSION" -> "permission"
    [] c = "Permission" -> "permission"
    [] c = "DENIED" -> "denied"
    [] c = "Denied" -> "denied"
    [] c = "API_KEY_INVALID" -> "api_key_invalid"
    [] OTHER -> c

toLowerCase(s) == [i \in 1..Len(s) |-> LowerSym(s[i])]

\* ------------------------------------------------------------- enumerations
IDLE == "IDLE"
LOADING == "LOADING"
SUCCESS == "SUCCESS"
ERROR == "ERROR"
AppStates == {IDLE, LOADING, SUCCESS, ERROR}

TEXT_TO_VIDEO == "TEXT_TO_VIDEO"
STORY_TO_VIDEO == "STORY_TO_VIDEO"
EXTEND_VIDEO == "EXTEND_VIDEO"

PORTRAIT == "9:16"
LANDSCAPE == "16:9"

P720 == "720p"
P1080 == "1080p"

\* the markers of the aspect-ratio inference, as character sequences
M_9_16 == <<"9", ":", "1", "6">>
M_vertical == <<"v", "e", "r", "t", "i", "c", "a", "l">>
M_16_9 == <<"1", "6", ":", "9">>
M_landscape == <<"l", "a", "n", "d", "s", "c", "a", "p", "e">>

\* the patterns of the failure classification, as word sequences
M_notFound == <<"Requested", "entity", "was", "not", "found.">>
M_keyInvalid == <<"API_KEY_INVALID">>
M_keyNotValid == <<"API", "key", "not", "valid">>
M_permissionDenied == <<"permission", "denied">>

MSG_unknown == <<"An unknown error occurred.">>
MSG_failedPrefix == <<"Video generation failed: ">>
MSG_modelNotFound == <<"Model not found. This can be caused by an invalid API key or permission issues. Please check your API key.">>
MSG_keyInvalid == <<"Your API key is invalid or lacks permissions. Please select a valid, billing-enabled API key.">>
MSG_extendPrefix == <<"Failed to prepare video for extension: ">>

\* ---------------------------------------------------------------- requests
\* A prompt is text, or the JSON text of a story script
TextPrompt(t) == [json |-> FALSE, text |-> t]
StoryPrompt(d, v, i) ==
  [json |-> TRUE, script |-> [dialogue |-> d, voice_tone |-> v, image_prompt |-> i]]
EmptyPrompt == TextPrompt(<<>>)

Img(n) == [image |-> n]

\* GenerateVideoParams
Request(mode, prompt, aspectRatio, resolution, media) ==
  [ model |-> "veo",
    mode |-> mode,
    prompt |-> prompt,
    aspectRatio |-> aspectRatio,
    resolution |-> resolution,
    startFrame |-> IF media THEN Img("start") ELSE Null,
    endFrame |-> IF media THEN Img("end") ELSE Null,
    referenceImages |-> IF media THEN <<Img("ref")>> ELSE <<>>,
    styleImage |-> IF media THEN Img("style") ELSE Null,
    isLooping |-> media,
    inputVideo |-> Null,
    inputVideoObject |-> Null ]

\* ------------------------------------------------------- thrown values
\* A thrown value: an Error with a message, or a value that is no Error
ErrorOf(m) == [isError |-> TRUE, message |-> m]
NonError == [isError |-> FALSE, message |-> <<>>]

SyntaxError == ErrorOf(<<"Unexpected", "token">>)
TypeError == ErrorOf(<<"Cannot", "read", "properties", "of", "undefined">>)
InvalidCharacterError == ErrorOf(<<"The", "string", "is", "not", "correctly", "encoded.">>)
RangeError == ErrorOf(<<"byte", "length", "should", "be", "a", "multiple", "of", "2">>)
NotSupportedError == ErrorOf(<<"number", "of", "frames", "must", "be", "positive">>)

Ok(v) == [ok |-> TRUE, value |-> v]
Throw(e) == [ok |-> FALSE, error |-> e]

\* ------------------------------------------------------ story script, ratio
\* JSON.parse(params.prompt) and the destructuring of line 119
JSONparse(prompt) ==
  IF prompt.json THEN Ok(prompt.script) ELSE Throw(SyntaxError)

InferAspectRatio_landscapeFirst(image_prompt, requested) ==
  IF Includes(image_prompt, M_16_9) \/ Includes(image_prompt, M_landscape)
  THEN LANDSCAPE
  ELSE IF Includes(image_prompt, M_9_16) \/ Includes(image_prompt, M_vertical)
       THEN PORTRAIT
       ELSE requested

\* lines 121-132: the aspect ratio of the video call of a story
InferAspectRatio(image_prompt, requested) ==
  IF Includes(image_prompt, M_9_16) \/ Includes(image_prompt, M_vertical)
  THEN PORTRAIT
  ELSE IF Includes(image_prompt, M_16_9) \/ Includes(image_prompt, M_landscape)
       THEN LANDSCAPE
       ELSE requested

StoryCalls_requestedRatio(params) ==
  LET parsed == JSONparse(params.prompt) IN
  IF ~parsed.ok THEN Throw(parsed.error)
  ELSE LET script == parsed.value IN
       IF "image_prompt" \notin DOMAIN script THEN Throw(TypeError)
       ELSE Ok([ videoParams |->
                   [params EXCEPT !.prompt = TextPrompt(script.image_prompt)],
                 dialogue |-> script.dialogue,
                 voice_tone |-> script.voice_tone ])

\* lines 117-134: the parameters of the video call of a story, or the throw of
\* JSON.parse or of image_prompt.includes on a script without an image_prompt
StoryCalls(params) ==
  LET parsed == JSONparse(params.prompt) IN
  IF ~parsed.ok THEN Throw(parsed.error)
  ELSE LET script == parsed.value IN
       IF "image_prompt" \notin DOMAIN script THEN Throw(TypeError)
       ELSE Ok([ videoParams |->
                   [params EXCEPT !.prompt = TextPrompt(script.image_prompt),
                                  !.aspectRatio =
                                     InferAspectRatio(script.image_prompt,
                                                      params.aspectRatio)],
                 dialogue |-> script.dialogue,
                 voice_tone |-> script.voice_tone ])

\* --------------------------------------------------- failure classification
\* lines 163-164
ErrorMessageOf(error) ==
  IF error.isError THEN error.message ELSE MSG_unknown

Classify_keyRuleFirst(errorMessage) ==
  IF \/ Includes(errorMessage, M_keyInvalid)
     \/ Includes(errorMessage, M_keyNotValid)
     \/ Includes(toLowerCase(errorMessage), M_permissionDenied)
  THEN [userFriendlyMessage |-> MSG_keyInvalid, shouldOpenDialog |-> TRUE]
  ELSE IF Includes(errorMessage, M_notFound)
       THEN [userFriendlyMessage |-> MSG_modelNotFound, shouldOpenDialog |-> TRUE]
       ELSE [userFriendlyMessage |-> MSG_failedPrefix \o errorMessage,
             shouldOpenDialog |-> FALSE]

\* lines 166-183
Classify(errorMessage) ==
  IF Includes(errorMessage, M_notFound)
  THEN [userFriendlyMessage |-> MSG_modelNotFound, shouldOpenDialog |-> TRUE]
  ELSE IF \/ Includes(errorMessage, M_keyInvalid)
          \/ Includes(errorMessage, M_keyNotValid)
          \/ Includes(toLowerCase(errorMessage), M_permissionDenied)
       THEN [userFriendlyMessage |-> MSG_keyInvalid, shouldOpenDialog |-> TRUE]
       ELSE [userFriendlyMessage |-> MSG_failedPrefix \o errorMessage,
             shouldOpenDialog |-> FALSE]

\* ------------------------------------------------------------ audio decoding
\* An encoded speech payload: base64 text that atob accepts or rejects, and
\* the bytes it stands for
Payload(valid, bytes) == [valid |-> valid, bytes |-> bytes]

\* lines 23-31
decode(base64) ==
  IF base64.valid THEN Ok(base64.bytes) ELSE Throw(InvalidCharacterError)

Int16_unsigned(lo, hi) == lo + 256 * hi

\* the signed 16-bit little-endian integer of two bytes
Int16(lo, hi) ==
  LET u == lo + 256 * hi IN IF u >= 32768 THEN u - 65536 ELSE u

\* lines 33-50: the samples of each channel, as numerators over 32768
decodeAudioData(data, numChannels) ==
  IF Len(data) % 2 # 0 THEN Throw(RangeError)
  ELSE LET dataInt16 == [k \in 1..(Len(data) \div 2) |->
                            Int16(data[2 * k - 1], data[2 * k])]
           frameCount == Len(dataInt16) \div numChannels
       IN IF frameCount = 0 THEN Throw(NotSupportedError)
          ELSE Ok([channel \in 0..(numChannels - 1) |->
                     [i \in 1..frameCount |->
                        dataInt16[(i - 1) * numChannels + channel + 1]]])

\* lines 141-148: decode(audioBase64), then decodeAudioData(.., 24000, 1)
DecodeSpeech(audioBase64) ==
  LET bytes == decode(audioBase64) IN
  IF ~bytes.ok THEN Throw(bytes.error)
  ELSE decodeAudioData(bytes.value, 1)

\* ------------------------------------------------------------------ state
VARIABLES
  appState,           \* useState<AppState>, line 53
  videoUrl,           \* line 54: Null or [url |-> request it was made for]
  audioBuffer,        \* line 55: Null or [audio |-> request, samples |-> ..]
  errorMessage,       \* line 56: Null or [text |-> message]
  lastConfig,         \* line 57: Null or a request
  lastVideoObject,    \* line 60: Null or [video |-> request]
  lastVideoBlob,      \* line 61: Null or [blob |-> request]
  showApiKeyDialog,   \* line 62
  initialFormValues,  \* line 65: Null or a request
  aistudio,           \* whether window.aistudio exists
  mountCheck,         \* the checkApiKey of the mount effect: "pending", "done"
  gens,               \* the bag of handleGenerate invocations still running
  continues,          \* handleApiKeyDialogContinue invocations awaiting openSelectKey
  reselect,           \* an attempt failed needing credential reselection and
                      \* openSelectKey has not settled since
  view,               \* the effect of the mounted VideoResult: Null, or the
                      \* audioBuffer it closed over and its audioContext, source
  contexts,           \* the AudioContexts that are open, by who opened them
  active,             \* the sources that were started and have not stopped
  op                  \* the last handler or continuation that ran

session ==
  << appState, videoUrl, audioBuffer, errorMessage, lastConfig,
     lastVideoObject, lastVideoBlob, showApiKeyDialog, initialFormValues >>

vars ==
  << appState, videoUrl, audioBuffer, errorMessage, lastConfig,
     lastVideoObject, lastVideoBlob, showApiKeyDialog, initialFormValues,
     aistudio, mountCheck, gens, continues, reselect,
     view, contexts, active, op >>

\* what VideoResult and the audio contexts hold
audio == << view, contexts, active >>

\* the React state as one record, for the handlers to transform
Cur ==
  [ appState |-> appState, videoUrl |-> videoUrl, audioBuffer |-> audioBuffer,
    errorMessage |-> errorMessage, lastConfig |-> lastConfig,
    lastVideoObject |-> lastVideoObject, lastVideoBlob |-> lastVideoBlob,
    showApiKeyDialog |-> showApiKeyDialog,
    initialFormValues |-> initialFormValues ]

\* VideoResult.tsx lines 28-29: the effect starts without context and source
Effect(a, buffer) ==
  [a EXCEPT !.view = [buffer |-> buffer, audioContext |-> FALSE,
                      source |-> "none"]]

\* the AudioContext a VideoResult effect opens
ViewContext == [by |-> "VideoResult"]

playAudio_keepsSource(a) ==
  IF a.view.buffer = Null THEN a
  ELSE [a EXCEPT !.view.audioContext = TRUE,
                 !.contexts = @ \cup {ViewContext},
                 !.view.source = "playing",
                 !.active = @ + 1]

\* VideoResult.tsx lines 31-52: the listener of the video's play event
playAudio(a) ==
  IF a.view.buffer = Null THEN a
  ELSE [a EXCEPT !.view.audioContext = TRUE,
                 !.contexts = @ \cup {ViewContext},
                 !.view.source = "playing",
                 !.active = IF a.view.source = "playing" THEN @ ELSE @ + 1]

\* VideoResult.tsx lines 59-69: the cleanup of the effect
Cleanup(a) ==
  [a EXCEPT !.view = Null,
            !.active = IF a.view.source = "playing" THEN @ - 1 ELSE @,
            !.contexts = IF a.view.audioContext THEN @ \ {ViewContext} ELSE @]

\* App.tsx lines 311-319 and VideoResult.tsx line 70: after the session became
\* s, VideoResult is mounted while a result is shown, and its effect is
\* cleaned up and run again when audioBuffer is another object (fresh: the
\* step stored a newly decoded buffer)
Render(a, s, fresh) ==
  LET shown == s.appState = SUCCESS /\ s.videoUrl # Null IN
  IF ~shown
  THEN IF a.view = Null THEN a ELSE Cleanup(a)
  ELSE IF a.view = Null
       THEN Effect(a, s.audioBuffer)
       ELSE IF fresh \/ a.view.buffer # s.audioBuffer
            THEN Effect(Cleanup(a), s.audioBuffer)
            ELSE a

\* App.tsx lines 141-142: handleGenerate opens an AudioContext to decode with
OutputContext(made) == [by |-> "handleGenerate", request |-> made]

NewAudioContext(a, made) ==
  [a EXCEPT !.contexts = @ \cup {OutputContext(made)}]

Audio == [view |-> view, contexts |-> contexts, active |-> active]

Shown(a) ==
  /\ view' = a.view
  /\ contexts' = a.contexts
  /\ active' = a.active

\* the state setters of a handler take effect
SetState(s) ==
  /\ appState' = s.appState
  /\ videoUrl' = s.videoUrl
  /\ audioBuffer' = s.audioBuffer
  /\ errorMessage' = s.errorMessage
  /\ lastConfig' = s.lastConfig
  /\ lastVideoObject' = s.lastVideoObject
  /\ lastVideoBlob' = s.lastVideoBlob
  /\ showApiKeyDialog' = s.showApiKeyDialog
  /\ initialFormValues' = s.initialFormValues

\* the state setters of a handler take effect and the page is rendered
Commit(s) ==
  /\ SetState(s)
  /\ Shown(Render(Audio, s, FALSE))

Text(m) == [text |-> m]

\* ------------------------------------------------------- synchronous handlers
\* lines 88-91
showStatusError(s, message) ==
  [s EXCEPT !.errorMessage = Text(message), !.appState = ERROR]

handleNewVideo_keepsBlob(s) ==
  [s EXCEPT !.appState = IDLE, !.videoUrl = Null, !.audioBuffer = Null,
            !.errorMessage = Null, !.lastConfig = Null,
            !.lastVideoObject = Null, !.initialFormValues = Null]

\* lines 210-219
handleNewVideo(s) ==
  [s EXCEPT !.appState = IDLE, !.videoUrl = Null, !.audioBuffer = Null,
            !.errorMessage = Null, !.lastConfig = Null,
            !.lastVideoObject = Null, !.lastVideoBlob = Null,
            !.initialFormValues = Null]

handleTryAgainFromError_dropsConfig(s) ==
  IF s.lastConfig # Null
  THEN [s EXCEPT !.initialFormValues = s.lastConfig, !.appState = IDLE,
                 !.errorMessage = Null, !.lastConfig = Null]
  ELSE handleNewVideo(s)

\* lines 221-230
handleTryAgainFromError(s) ==
  IF s.lastConfig # Null
  THEN [s EXCEPT !.initialFormValues = s.lastConfig, !.appState = IDLE,
                 !.errorMessage = Null]
  ELSE handleNewVideo(s)

ExtendGuard_requestOnly(s) == s.lastConfig # Null

\* line 233: the guard of handleExtend
ExtendGuard(s) ==
  s.lastConfig # Null /\ s.lastVideoBlob # Null /\ s.lastVideoObject # Null

ExtendRequest_keepsMedia(s) ==
  [s.lastConfig EXCEPT
     !.mode = EXTEND_VIDEO,
     !.prompt = EmptyPrompt,
     !.inputVideo = [file |-> s.lastVideoBlob, name |-> "last_video.mp4",
                     base64 |-> <<>>],
     !.inputVideoObject = s.lastVideoObject,
     !.resolution = P720]

\* lines 235-253: the request the form is pre-filled with
ExtendRequest(s) ==
  [s.lastConfig EXCEPT
     !.mode = EXTEND_VIDEO,
     !.prompt = EmptyPrompt,
     !.inputVideo = [file |-> s.lastVideoBlob, name |-> "last_video.mp4",
                     base64 |-> <<>>],
     !.inputVideoObject = s.lastVideoObject,
     !.resolution = P720,
     !.startFrame = Null,
     !.endFrame = Null,
     !.referenceImages = <<>>,
     !.styleImage = Null,
     !.isLooping = FALSE]

\* lines 232-266 (new File(..) of a Blob does not throw: the catch is dead)
handleExtend(s) ==
  IF ExtendGuard(s)
  THEN [s EXCEPT !.initialFormValues = ExtendRequest(s), !.appState = IDLE,
                 !.videoUrl = Null, !.audioBuffer = Null, !.errorMessage = Null]
  ELSE s

\* ------------------------------------------------------------ handleGenerate
\* lines 110-114
BeginLoading(s, params) ==
  [s EXCEPT !.appState = LOADING, !.errorMessage = Null,
            !.lastConfig = params, !.initialFormValues = Null]

CatchFailure_toIdle(s, error) ==
  LET c == Classify(ErrorMessageOf(error)) IN
  [s EXCEPT !.errorMessage = Text(c.userFriendlyMessage), !.appState = IDLE,
            !.showApiKeyDialog = IF c.shouldOpenDialog THEN TRUE ELSE @]

\* lines 161-191: the catch block
CatchFailure(s, error) ==
  LET c == Classify(ErrorMessageOf(error)) IN
  [s EXCEPT !.errorMessage = Text(c.userFriendlyMessage), !.appState = ERROR,
            !.showApiKeyDialog = IF c.shouldOpenDialog THEN TRUE ELSE @]

\* lines 185-190: whether the catch block opens the credential dialog
NeedsReselection(error) == Classify(ErrorMessageOf(error)).shouldOpenDialog

\* lines 154-157: the result of generateVideo(params) is stored
StoreVideo(s, made) ==
  [s EXCEPT !.videoUrl = [url |-> made], !.lastVideoBlob = [blob |-> made],
            !.lastVideoObject = [video |-> made]]

\* lines 149-152
StoreStory(s, made, samples) ==
  [StoreVideo(s, made) EXCEPT
     !.audioBuffer = [audio |-> made, samples |-> samples]]

\* line 160
EnterSuccess(s) == [s EXCEPT !.appState = SUCCESS]

\* One handleGenerate invocation.  pc: "check" while hasSelectedApiKey is
\* awaited, "calls" while the collaborator calls are awaited, "done" after.
\* video, speech: "none" (not issued), "pending", "ok", "fail".
Gen(params) ==
  [ pc |-> "check", params |-> params, checked |-> FALSE,
    video |-> "none", speech |-> "none", videoParams |-> Null,
    payload |-> Null, decoded |-> FALSE, outcome |-> "none" ]

\* what a result is known by: the request it was made for, without the
\* video that request extends
Made(params) == [params EXCEPT !.inputVideo = Null, !.inputVideoObject = Null]

\* lines 110-139: from setAppState(LOADING) to the await of the calls.
\* The result: the session, the invocation, and whether the catch block ran
\* for a failure that needs credential reselection.
StartAttempt(s, gen) ==
  LET params == gen.params
      s1 == BeginLoading(s, params)
  IN IF params.mode = STORY_TO_VIDEO
     THEN LET c == StoryCalls(params) IN
          IF c.ok
          THEN [ s |-> s1,
                 gen |-> [gen EXCEPT !.pc = "calls", !.video = "pending",
                                     !.speech = "pending",
                                     !.videoParams = c.value.videoParams],
                 needs |-> FALSE ]
          ELSE [ s |-> CatchFailure(s1, c.error),
                 gen |-> [gen EXCEPT !.pc = "done", !.outcome = "failed"],
                 needs |-> NeedsReselection(c.error) ]
     ELSE [ s |-> s1,
            gen |-> [gen EXCEPT !.pc = "calls", !.video = "pending",
                                !.videoParams = params],
            needs |-> FALSE ]

\* lines 161-191 for invocation gen
FailAttempt(s, gen, error) ==
  [ s |-> CatchFailure(s, error),
    gen |-> [gen EXCEPT !.pc = "done", !.outcome = "failed"],
    needs |-> NeedsReselection(error) ]

\* lines 154-160: generateVideo of a request that is no story resolved
VideoOnlySuccess(s, gen) ==
  [ s |-> EnterSuccess(StoreVideo(s, Made(gen.params))),
    gen |-> [gen EXCEPT !.pc = "done", !.outcome = "success"],
    needs |-> FALSE ]

\* a decoding failure that ends the attempt without reporting it
JoinSuccess_swallowsDecode(s, gen, payload) ==
  LET d == DecodeSpeech(payload)
      g == [gen EXCEPT !.decoded = TRUE, !.payload = payload]
  IN IF d.ok
     THEN [ s |-> EnterSuccess(StoreStory(s, Made(gen.params), d.value)),
            gen |-> [g EXCEPT !.pc = "done", !.outcome = "success"],
            needs |-> FALSE ]
     ELSE [ s |-> s,
            gen |-> [g EXCEPT !.pc = "done", !.outcome = "failed"],
            needs |-> FALSE ]

\* lines 141-152, 160: Promise.all resolved with the video and the payload
JoinSuccess(s, gen, payload) ==
  LET d == DecodeSpeech(payload)
      g == [gen EXCEPT !.decoded = TRUE, !.payload = payload]
  IN IF d.ok
     THEN [ s |-> EnterSuccess(StoreStory(s, Made(gen.params), d.value)),
            gen |-> [g EXCEPT !.pc = "done", !.outcome = "success"],
            needs |-> FALSE ]
     ELSE FailAttempt(s, g, d.error)

\* a best-effort merge: the video of a story is kept when only speech failed
Join_partial(s, gen, error, payload) ==
  IF gen.video = "ok" /\ gen.speech = "fail"
  THEN [ s |-> CatchFailure(StoreVideo(s, Made(gen.params)), error),
         gen |-> [gen EXCEPT !.pc = "done", !.outcome = "failed"],
         needs |-> NeedsReselection(error) ]
  ELSE IF gen.video = "fail" \/ gen.speech = "fail"
       THEN FailAttempt(s, gen, error)
       ELSE IF gen.video = "ok" /\ gen.speech = "ok"
            THEN JoinSuccess(s, gen, payload)
            ELSE IF gen.video = "ok" /\ gen.speech = "none"
                 THEN VideoOnlySuccess(s, gen)
                 ELSE [s |-> s, gen |-> gen, needs |-> FALSE]

\* lines 136-139, 154: a collaborator call of invocation gen settled (gen
\* holds the outcome already).  Promise.all rejects with the first rejection,
\* resolves when both calls have resolved, and else stays pending.  Once it
\* has rejected, no code runs when the other call settles.  payload is what
\* generateSpeech resolved with: nothing reads it before both have resolved.
Join(s, gen, error, payload) ==
  IF gen.video = "fail" \/ gen.speech = "fail"
  THEN FailAttempt(s, gen, error)
  ELSE IF gen.video = "ok" /\ gen.speech = "ok"
       THEN JoinSuccess(s, gen, payload)
       ELSE IF gen.video = "ok" /\ gen.speech = "none"
            THEN VideoOnlySuccess(s, gen)
            ELSE [s |-> s, gen |-> gen, needs |-> FALSE]

\* lines 93-108 up to the first await: with window.aistudio the invocation
\* awaits hasSelectedApiKey, without it the attempt starts at once
handleGenerate(s, params) ==
  IF aistudio
  THEN [s |-> s, gen |-> Gen(params), needs |-> FALSE]
  ELSE StartAttempt(s, Gen(params))

\* the effect r of a handler or continuation: on the session, on the running
\* invocations (old: the invocation that continued, Null for a new one) and
\* on the reselection flag
Apply(old, r, pending) ==
  /\ SetState(r.s)
  /\ Shown(Render(IF r.gen.decoded
                  THEN NewAudioContext(Audio, Made(r.gen.params))
                  ELSE Audio,
                  r.s, r.gen.decoded /\ r.gen.outcome = "success"))
  /\ gens' = LET rest == IF old = Null THEN gens ELSE gens (-) SetToBag({old})
             IN IF r.gen.pc = "done" THEN rest ELSE rest (+) SetToBag({r.gen})
  /\ reselect' = (pending \/ r.needs)

\* the async handler invocations that have not run to their end
Pending == BagCardinality(gens) + Len(continues)

\* a handler that leaves the session, the invocations and the flag alone
Skip == UNCHANGED << session, audio, gens, reselect >>

\* the record of the step taken: the handler, the appState it ran in, whether
\* its guard held or its promise resolved, and the invocation it ran for
Op(name, hit, gen) ==
  [name |-> name, pre |-> appState, hit |-> hit, gen |-> gen]

\* ------------------------------------------------------------------ inputs
R_media ==
  Request(TEXT_TO_VIDEO, TextPrompt(<<"d", "o", "g">>), PORTRAIT, P720, TRUE)
R_story ==
  Request(STORY_TO_VIDEO,
          StoryPrompt(<<"h", "i">>, <<"c", "a", "l", "m">>,
                      <<"a", " ", "9", ":", "1", "6">>),
          LANDSCAPE, P1080, FALSE)
R_badStory ==
  Request(STORY_TO_VIDEO, TextPrompt(<<"c", "a", "t">>), LANDSCAPE, P720, FALSE)

\* what PromptForm passes to onGenerate
FormInputs == {R_media, R_story, R_badStory}

\* what a collaborator call rejects with
CredentialFailure == ErrorOf(<<"Error:", "PERMISSION", "DENIED">>)
GenericFailure == ErrorOf(<<"quota", "exceeded">>)
Failures == {CredentialFailure, GenericFailure}

\* what generateSpeech resolves with: one sample, or half a sample
GoodPayload == Payload(TRUE, <<0, 128>>)
OddPayload == Payload(TRUE, <<1>>)
SpeechPayloads == {GoodPayload, OddPayload}

\* -------------------------------------------------------------------- Init
Init ==
  /\ appState = IDLE
  /\ videoUrl = Null
  /\ audioBuffer = Null
  /\ errorMessage = Null
  /\ lastConfig = Null
  /\ lastVideoObject = Null
  /\ lastVideoBlob = Null
  /\ showApiKeyDialog = FALSE
  /\ initialFormValues = Null
  /\ aistudio \in BOOLEAN
  /\ mountCheck = IF aistudio THEN "pending" ELSE "done"
  /\ gens = EmptyBag
  /\ continues = <<>>
  /\ reselect = FALSE
  /\ view = Null
  /\ contexts = {}
  /\ active = 0
  /\ op = [name |-> "init", pre |-> IDLE, hit |-> FALSE, gen |-> Null]

Env == UNCHANGED aistudio

\* ---------------------------------------------------------------- handlers
\* handler name invokes handleGenerate(s, params) and ends
InvokeFrom(name, s, params, pending) ==
  LET r == handleGenerate(s, params) IN
  /\ Apply(Null, r, pending)
  /\ op' = Op(name, TRUE, r.gen)

\* the same, for a handler that is no pending invocation itself
Invoke(name, s, params, pending) ==
  Pending < MaxPending /\ InvokeFrom(name, s, params, pending)

\* PromptForm's onGenerate, lines 93-114
Submit(params) ==
  /\ Invoke("submit", Cur, params, reselect)
  /\ UNCHANGED << mountCheck, continues >> /\ Env

\* line 195: the guard of handleRetry
RetryGuard(s) == s.lastConfig # Null

\* lines 194-198
Retry ==
  /\ IF RetryGuard(Cur)
     THEN Invoke("retry", Cur, lastConfig, reselect)
     ELSE Skip /\ op' = Op("retry", FALSE, Null)
  /\ UNCHANGED << mountCheck, continues >> /\ Env

\* lines 210-219
NewVideo ==
  /\ Commit(handleNewVideo(Cur))
  /\ op' = Op("new", TRUE, Null)
  /\ UNCHANGED << mountCheck, gens, continues, reselect >> /\ Env

\* lines 221-230
TryAgain ==
  /\ Commit(handleTryAgainFromError(Cur))
  /\ op' = Op("tryAgain", lastConfig # Null, Null)
  /\ UNCHANGED << mountCheck, gens, continues, reselect >> /\ Env

\* lines 232-266
Extend ==
  /\ Commit(handleExtend(Cur))
  /\ op' = Op("extend", ExtendGuard(Cur), Null)
  /\ UNCHANGED << mountCheck, gens, continues, reselect >> /\ Env

\* lines 205-207: the end of handleApiKeyDialogContinue reads the appState
\* and lastConfig of the render the handler was created in: whether it
\* retries, and the request it retries
Captured(s) ==
  IF s.appState = ERROR /\ s.lastConfig # Null
  THEN [retries |-> TRUE, lastConfig |-> s.lastConfig]
  ELSE [retries |-> FALSE, lastConfig |-> Null]

\* lines 200-208 up to the await of openSelectKey; without window.aistudio
\* the handler runs to its end
Continue ==
  LET s1 == [Cur EXCEPT !.showApiKeyDialog = FALSE]
      snap == Captured(Cur)
  IN /\ IF aistudio
        THEN /\ Pending < MaxPending
             /\ Commit(s1)
             /\ continues' = Append(continues, snap)
             /\ UNCHANGED << gens, reselect >>
             /\ op' = Op("continue", FALSE, Null)
        ELSE /\ IF snap.retries
                THEN Invoke("continue", s1, snap.lastConfig, reselect)
                ELSE /\ Commit(s1)
                     /\ UNCHANGED << gens, reselect >>
                     /\ op' = Op("continue", FALSE, Null)
             /\ UNCHANGED continues
     /\ UNCHANGED mountCheck /\ Env

Remove(seq, i) == SubSeq(seq, 1, i - 1) \o SubSeq(seq, i + 1, Len(seq))

\* lines 203-207: openSelectKey of the i-th waiting continuation settles; a
\* rejection ends the handler
OpenSelectKeySettles ==
  \E i \in 1..Len(continues), resolved \in BOOLEAN :
    LET snap == continues[i] IN
    /\ continues' = Remove(continues, i)
    /\ IF resolved /\ snap.retries
       THEN InvokeFrom("openSelectKey", Cur, snap.lastConfig, FALSE)
       ELSE /\ UNCHANGED << session, audio, gens >>
            /\ reselect' = FALSE
            /\ op' = Op("openSelectKey", resolved, Null)
    /\ UNCHANGED mountCheck /\ Env

KeyResults == {"true", "false", "throw"}

\* lines 69-86: hasSelectedApiKey of the mount effect settles
MountCheckSettles ==
  \E result \in KeyResults :
    /\ mountCheck = "pending"
    /\ mountCheck' = "done"
    /\ Commit([Cur EXCEPT !.showApiKeyDialog = IF result = "true" THEN @ ELSE TRUE])
    /\ op' = Op("mountCheck", result = "true", Null)
    /\ UNCHANGED << gens, continues, reselect >> /\ Env

\* the catch of lines 100-107 without its return
AfterKeyCheck_throwFallsThrough(s, gen, result) ==
  IF result = "true"
  THEN StartAttempt(s, [gen EXCEPT !.checked = TRUE])
  ELSE IF result = "throw"
       THEN StartAttempt([s EXCEPT !.showApiKeyDialog = TRUE], gen)
       ELSE [ s |-> [s EXCEPT !.showApiKeyDialog = TRUE],
              gen |-> [gen EXCEPT !.pc = "done", !.outcome = "refused"],
              needs |-> FALSE ]

\* lines 95-108: hasSelectedApiKey of invocation gen settled with result
AfterKeyCheck(s, gen, result) ==
  IF result = "true"
  THEN StartAttempt(s, [gen EXCEPT !.checked = TRUE])
  ELSE [ s |-> [s EXCEPT !.showApiKeyDialog = TRUE],
         gen |-> [gen EXCEPT !.pc = "done", !.outcome = "refused"],
         needs |-> FALSE ]

KeyCheckSettles ==
  \E gen \in BagToSet(gens), result \in KeyResults :
    LET r == AfterKeyCheck(Cur, gen, result) IN
    /\ gen.pc = "check"
    /\ Apply(gen, r, reselect)
    /\ op' = Op("keyCheck", result = "true", r.gen)
    /\ UNCHANGED << mountCheck, continues >> /\ Env

\* generateVideo of invocation gen settles: resolves, or rejects with a failure
VideoSettles ==
  \E gen \in BagToSet(gens), ok \in BOOLEAN, error \in Failures,
     payload \in SpeechPayloads :
    LET r == Join(Cur, [gen EXCEPT !.video = IF ok THEN "ok" ELSE "fail"],
                  error, payload)
    IN /\ gen.pc = "calls" /\ gen.video = "pending"
       /\ ok => error = GenericFailure
       /\ ~(ok /\ gen.speech = "ok") => payload = GoodPayload
       /\ Apply(gen, r, reselect)
       /\ op' = Op("video", ok, r.gen)
       /\ UNCHANGED << mountCheck, continues >> /\ Env

\* generateSpeech of invocation gen settles: resolves with a payload, or
\* rejects with a failure
SpeechSettles ==
  \E gen \in BagToSet(gens), ok \in BOOLEAN, error \in Failures,
     payload \in SpeechPayloads :
    LET r == Join(Cur, [gen EXCEPT !.speech = IF ok THEN "ok" ELSE "fail"],
                  error, payload)
    IN /\ gen.pc = "calls" /\ gen.speech = "pending"
       /\ ok => error = GenericFailure
       /\ ~(ok /\ gen.video = "ok") => payload = GoodPayload
       /\ Apply(gen, r, reselect)
       /\ op' = Op("speech", ok, r.gen)
       /\ UNCHANGED << mountCheck, continues >> /\ Env

\* ------------------------------------------------------------- VideoResult
\* VideoResult.tsx lines 31-52, 56: the video element fires play (autoPlay,
\* or the user starting it again with the controls)
VideoPlays ==
  /\ view # Null
  /\ Shown(playAudio(Audio))
  /\ op' = [name |-> "play", pre |-> appState, hit |-> view.buffer # Null,
            gen |-> Null, replay |-> view.source = "playing"]
  /\ UNCHANGED << session, mountCheck, gens, continues, reselect >> /\ Env

\* the source that is playing reaches the end of its buffer
SourceEnds ==
  /\ view # Null /\ view.source = "playing"
  /\ view' = [view EXCEPT !.source = "ended"]
  /\ active' = active - 1
  /\ op' = Op("ended", TRUE, Null)
  /\ UNCHANGED << session, contexts, mountCheck, gens, continues, reselect >>
  /\ Env

\* ------------------------------------------------------------ what is shown
\* ApiKeyDialog, while shown, covers the page and takes the clicks; the
\* first click comes after the check of the mount effect has settled
Clickable == ~showApiKeyDialog /\ mountCheck = "done"
\* line 291
FormRendered == appState = IDLE
\* line 311
ResultRendered == appState = SUCCESS /\ videoUrl # Null
\* lines 321-328
ErrorRendered ==
  \/ appState = SUCCESS /\ videoUrl = Null
  \/ appState = ERROR /\ errorMessage # Null
\* line 318
canExtend == lastConfig # Null /\ lastConfig.resolution = P720

ClickGenerate ==
  Clickable /\ FormRendered /\ \E params \in FormInputs : Submit(params)
ClickRetry == Clickable /\ ResultRendered /\ Retry
ClickExtend == Clickable /\ ResultRendered /\ canExtend /\ Extend
ClickNewVideo == Clickable /\ ResultRendered /\ NewVideo
ClickTryAgain == Clickable /\ ErrorRendered /\ TryAgain
ClickContinue == showApiKeyDialog /\ mountCheck = "done" /\ Continue

\* the application as the user can drive it
Next ==
  \/ ClickGenerate
  \/ ClickRetry
  \/ ClickExtend
  \/ ClickNewVideo
  \/ ClickTryAgain
  \/ ClickContinue
  \/ OpenSelectKeySettles
  \/ MountCheckSettles
  \/ KeyCheckSettles
  \/ VideoSettles
  \/ SpeechSettles
  \/ VideoPlays
  \/ SourceEnds

Spec == Init /\ [][Next]_vars

\* a call of an invocation settles, seen on the invocations alone: the
\* invocation ends (Promise.all rejected, or the last call resolved), or one
\* of the two calls of a story resolves while the other is outstanding.
\* These are the steps of VideoSettles and SpeechSettles, and one is possible
\* exactly while a call is outstanding.
CallSettles ==
  \E g \in BagToSet(gens) :
    /\ g.pc = "calls"
    /\ \/ gens' = gens (-) SetToBag({g})
       \/ /\ g.video = "pending" /\ g.speech = "pending"
          /\ \/ gens' = (gens (-) SetToBag({g}))
                           (+) SetToBag({[g EXCEPT !.video = "ok"]})
             \/ gens' = (gens (-) SetToBag({g}))
                           (+) SetToBag({[g EXCEPT !.speech = "ok"]})

\* the same, where the collaborator calls that were issued settle in the end
SpecLive == Spec /\ WF_gens(CallSettles)

\* the handlers as functions, called in any state whatever is shown; an async
\* handler is called when no invocation is pending
Quiet == Pending = 0 /\ mountCheck = "done"
CallGenerate == Quiet /\ \E params \in FormInputs : Submit(params)
CallRetry == (RetryGuard(Cur) => Quiet) /\ Retry
CallExtend == mountCheck = "done" /\ Extend
CallNewVideo == mountCheck = "done" /\ NewVideo
CallTryAgain == mountCheck = "done" /\ TryAgain
CallContinue == Quiet /\ Continue

NextAny ==
  \/ CallGenerate
  \/ CallRetry
  \/ CallExtend
  \/ CallNewVideo
  \/ CallTryAgain
  \/ CallContinue
  \/ OpenSelectKeySettles
  \/ MountCheckSettles
  \/ KeyCheckSettles
  \/ VideoSettles
  \/ SpeechSettles

SpecAny == Init /\ [][NextAny]_vars

\* ------------------------------------------------- the functions on their own
\* the concatenation of a sequence of sequences
RECURSIVE Flatten(_)
Flatten(ss) == IF ss = <<>> THEN <<>> ELSE Head(ss) \o Flatten(Tail(ss))

\* every text put together from at most n pieces of S
Texts(S, n) == { Flatten(c) : c \in UNION { [1..k -> S] : k \in 0..n } }

\* pieces of the messages a thrown Error carries
MessageChunks ==
  { M_notFound, M_keyInvalid, M_keyNotValid,
    <<"PERMISSION", "DENIED">>, <<"Permission", "denied">>,
    <<"permission">>, <<"denied">>, <<"not">>, <<"API", "key">>, <<"quota">> }

\* what the catch block of handleGenerate can be handed
Thrown == { ErrorOf(m) : m \in Texts(MessageChunks, MaxChunks) } \cup {NonError}

\* pieces of the image prompt of a story script
PromptChunks ==
  { M_9_16, M_vertical, M_16_9, M_landscape,
    <<"a", " ">>, <<"1", "6">>, <<":", "1", "6">>,
    <<"V", "e", "r", "t", "i", "c", "a", "l">> }

ImagePrompts == Texts(PromptChunks, MaxChunks)

\* bytes of a payload: the extremes of both halves of a sample
ByteValues == {0, 1, 127, 128, 255}
ByteSeqs == UNION { [1..k -> ByteValues] : k \in 0..MaxBytes }
Channels == {1, 2}

\* nothing of the application moves while a function is applied
Still ==
  UNCHANGED << session, audio, aistudio, mountCheck, gens, continues, reselect >>

\* the arguments a function is about to be applied to
Arguments ==
  { [name |-> "thrown", error |-> error] : error \in Thrown }
  \cup { [name |-> "prompt", image_prompt |-> ip, requested |-> r] :
           ip \in ImagePrompts, r \in {PORTRAIT, LANDSCAPE} }
  \cup { [name |-> "payload", bytes |-> b, numChannels |-> n] :
           b \in ByteSeqs, n \in Channels }

InitPure ==
  /\ appState = IDLE
  /\ videoUrl = Null
  /\ audioBuffer = Null
  /\ errorMessage = Null
  /\ lastConfig = Null
  /\ lastVideoObject = Null
  /\ lastVideoBlob = Null
  /\ showApiKeyDialog = FALSE
  /\ initialFormValues = Null
  /\ aistudio = FALSE
  /\ mountCheck = "done"
  /\ gens = EmptyBag
  /\ continues = <<>>
  /\ reselect = FALSE
  /\ view = Null
  /\ contexts = {}
  /\ active = 0
  /\ op \in Arguments

\* lines 163-183 applied to a thrown value
ClassifyCall ==
  /\ op.name = "thrown"
  /\ op' = [name |-> "classify", error |-> op.error,
            out |-> Classify(ErrorMessageOf(op.error))]
  /\ Still

\* lines 121-132 applied to an image prompt and the requested ratio
InferCall ==
  /\ op.name = "prompt"
  /\ op' = [name |-> "infer", image_prompt |-> op.image_prompt,
            requested |-> op.requested,
            out |-> InferAspectRatio(op.image_prompt, op.requested)]
  /\ Still

\* decodeAudioData(decode(base64), ctx, 24000, numChannels)
DecodeCall ==
  /\ op.name = "payload"
  /\ LET data == decode(Payload(TRUE, op.bytes)) IN
     op' = [name |-> "decode", bytes |-> op.bytes,
            numChannels |-> op.numChannels,
            out |-> decodeAudioData(data.value, op.numChannels)]
  /\ Still

NextPure == ClassifyCall \/ InferCall \/ DecodeCall

SpecPure == InitPure /\ [][NextPure]_vars

\* ================================================================== claims
result == << videoUrl, audioBuffer, lastVideoObject, lastVideoBlob >>

\* C1: after the "new" action, invoked in any session state, the session is
\* Idle and the last request, the stored result, the error message and the
\* form pre-fill are all empty.
C1_NewClearsAll ==
  op.name = "new" =>
    /\ appState = IDLE
    /\ lastConfig = Null
    /\ videoUrl = Null /\ audioBuffer = Null
    /\ lastVideoObject = Null /\ lastVideoBlob = Null
    /\ errorMessage = Null
    /\ initialFormValues = Null

\* "new" was invoked while the session was in Error
C1_Witness == op.name = "new" /\ op.pre = ERROR /\ appState = IDLE

\* C2: from Error, "try again" with a stored last request moves the session
\* to Idle with the pre-fill equal to that request, clears the error message
\* and keeps the request stored; with no stored request it has the effect of
\* "new".
C2_TryAgain ==
  [][ (op'.name = "tryAgain" /\ appState = ERROR) =>
        IF lastConfig # Null
        THEN /\ appState' = IDLE
             /\ initialFormValues' = lastConfig
             /\ errorMessage' = Null
             /\ lastConfig' = lastConfig
        ELSE /\ appState' = IDLE
             /\ lastConfig' = Null
             /\ videoUrl' = Null /\ audioBuffer' = Null
             /\ lastVideoObject' = Null /\ lastVideoBlob' = Null
             /\ errorMessage' = Null
             /\ initialFormValues' = Null
             /\ showApiKeyDialog' = showApiKeyDialog ]_vars

\* "try again" ran in Error with a stored request, which is now the pre-fill
C2_Witness ==
  /\ op.name = "tryAgain" /\ op.pre = ERROR /\ op.hit
  /\ appState = IDLE /\ lastConfig # Null /\ initialFormValues = lastConfig

\* "try again" ran in Error with no stored request
C2_WitnessNoRequest ==
  op.name = "tryAgain" /\ op.pre = ERROR /\ ~op.hit /\ appState = IDLE

\* C3: when the video call or the speech call of a StoryToVideo attempt
\* fails, whatever the outcome of the other call, the attempt ends in Error,
\* no audio is decoded and no stored result field is written.
C3_JoinFailure ==
  [][ ( /\ op'.name \in {"video", "speech"}
        /\ ~op'.hit
        /\ op'.gen.params.mode = STORY_TO_VIDEO ) =>
        /\ appState' = ERROR
        /\ errorMessage' # Null
        /\ op'.gen.outcome = "failed"
        /\ ~op'.gen.decoded
        /\ result' = result ]_vars

\* the speech call failed after the video call of the same attempt succeeded
C3_Witness ==
  /\ op.name = "speech" /\ ~op.hit
  /\ op.gen.video = "ok" /\ op.gen.speech = "fail"
  /\ op.gen.outcome = "failed" /\ appState = ERROR

\* the step taken started an attempt: it ran lines 110-139
Started(o) ==
  /\ o.name \in {"submit", "retry", "continue", "openSelectKey", "keyCheck"}
  /\ o.gen # Null
  /\ o.gen.pc # "check"
  /\ o.gen.outcome # "refused"

\* C4: whenever an attempt for a request whose mode is not StoryToVideo
\* completes successfully, the session is in Success with no audio buffer.
C4_NoAudioUnlessStory ==
  ( /\ op.name = "video" /\ op.hit
    /\ op.gen.outcome = "success"
    /\ op.gen.params.mode # STORY_TO_VIDEO ) =>
    appState = SUCCESS /\ audioBuffer = Null

\* C5: when a submitted request is accepted and the session enters Loading
\* (here: by a handleGenerate that starts the attempt in the step of the
\* submit), it is stored as the last request and the video resource and audio
\* buffer shown before are cleared.
C5_SubmitClearsResult ==
  (op.name = "submit" /\ Started(op) /\ appState = LOADING) =>
    /\ lastConfig = op.gen.params
    /\ videoUrl = Null
    /\ audioBuffer = Null

\* C6 as stated: every change of the session state is one of Idle->Loading,
\* Loading->Success, Loading->Error, Success/Error->Idle, Error->Loading.
C6_ListedTransitions ==
  [][ appState' # appState =>
        << appState, appState' >> \in
          { << IDLE, LOADING >>, << LOADING, SUCCESS >>, << LOADING, ERROR >>,
            << SUCCESS, IDLE >>, << ERROR, IDLE >>, << ERROR, LOADING >> } ]_vars

\* C6 as amended: the session state changes to Loading only when an attempt
\* starts, to Success only when the calls of an attempt have resolved, to
\* Error only when an attempt fails, and to Idle only by new, try again or
\* extend, and then from Success or Error: Loading -> Idle never occurs.
C6_Transitions ==
  [][ appState' # appState =>
        CASE appState' = LOADING -> Started(op') /\ op'.gen.pc = "calls"
          [] appState' = SUCCESS ->
               /\ op'.name \in {"video", "speech"} /\ op'.hit
               /\ op'.gen.outcome = "success"
          [] appState' = ERROR ->
               /\ op'.gen # Null /\ op'.gen.outcome = "failed"
          [] appState' = IDLE ->
               /\ op'.name \in {"new", "tryAgain", "extend"}
               /\ appState \in {SUCCESS, ERROR} ]_vars

\* Retry on the result view took the session from Success to Loading
C6_Witness == op.name = "retry" /\ op.pre = SUCCESS /\ appState = LOADING

\* C7: extend without a last request, video payload or video handle, and
\* retry without a last request, change nothing: not the session, and no
\* invocation is made, so no collaborator call is issued.
C7_NoOps ==
  [][ ( \/ /\ op'.name = "extend"
           /\ lastConfig = Null \/ lastVideoBlob = Null \/ lastVideoObject = Null
        \/ /\ op'.name = "retry"
           /\ lastConfig = Null ) =>
        UNCHANGED << session, gens, continues, reselect >> ]_vars

\* extend was called with a last request but no video payload
C7_Witness ==
  op.name = "extend" /\ ~op.hit /\ lastConfig # Null /\ lastVideoBlob = Null

\* retry was called with no last request
C7_WitnessRetry == op.name = "retry" /\ ~op.hit /\ lastConfig = Null

\* C8: with a last request and a stored result, extend moves the session to
\* Idle, clears the displayed result and pre-fills a request with mode
\* ExtendVideo, empty prompt, resolution 720p, the prior video handle and the
\* wrapped prior payload, the aspect ratio of the last request, and frames,
\* reference images, style image and loop flag reset.
C8_Extend ==
  [][ ( /\ op'.name = "extend"
        /\ lastConfig # Null /\ lastVideoBlob # Null /\ lastVideoObject # Null ) =>
        /\ appState' = IDLE
        /\ videoUrl' = Null /\ audioBuffer' = Null
        /\ initialFormValues'.mode = EXTEND_VIDEO
        /\ initialFormValues'.prompt = EmptyPrompt
        /\ initialFormValues'.resolution = P720
        /\ initialFormValues'.inputVideoObject = lastVideoObject
        /\ initialFormValues'.inputVideo.file = lastVideoBlob
        /\ initialFormValues'.aspectRatio = lastConfig.aspectRatio
        /\ initialFormValues'.startFrame = Null
        /\ initialFormValues'.endFrame = Null
        /\ initialFormValues'.referenceImages = <<>>
        /\ initialFormValues'.styleImage = Null
        /\ initialFormValues'.isLooping = FALSE ]_vars

\* extend ran on a displayed result whose request had frames and a loop flag
C8_Witness ==
  /\ op.name = "extend" /\ op.hit /\ op.pre = SUCCESS
  /\ lastConfig.isLooping /\ lastConfig.startFrame # Null
  /\ appState = IDLE /\ initialFormValues.mode = EXTEND_VIDEO

\* C9: with the credential collaborator present, the calls of an invocation
\* are issued only after hasSelectedApiKey returned true for it; when it
\* returns false or throws, the dialog is opened and the session state, the
\* last request and the stored result are unchanged.
C9_CheckedBeforeCalls ==
  /\ [](aistudio =>
          /\ \A g \in BagToSet(gens) : g.video # "none" => g.checked
          /\ (op.gen # Null /\ op.gen.video # "none") => op.gen.checked)
  /\ [][ (op'.name = "keyCheck" /\ ~op'.hit) =>
           /\ showApiKeyDialog'
           /\ op'.gen.video = "none" /\ op'.gen.speech = "none"
           /\ UNCHANGED << appState, lastConfig, result >> ]_vars

\* hasSelectedApiKey refused a retry of a displayed result
C9_Witness ==
  /\ op.name = "keyCheck" /\ ~op.hit /\ op.gen.outcome = "refused"
  /\ showApiKeyDialog /\ appState = SUCCESS /\ videoUrl # Null

\* C10: after an attempt failed needing credential reselection, no attempt
\* starts until openSelectKey has been run.
C10_NoAttemptBeforeReselection ==
  [][ reselect => ~Started(op') ]_vars

\* C11: the classification checks its rules in order and the first match
\* wins: "entity not found" gives the model-not-found message and asks for
\* reselection, even when the invalid-credential rule matches too; else an
\* invalid credential or, in any letter case, permission denied gives the
\* invalid-key message and asks for reselection; else the message is the raw
\* message behind the "generation failed" prefix and no reselection is asked.
C11_FirstMatchWins ==
  op.name = "classify" =>
    LET m == ErrorMessageOf(op.error)
        notFound == Includes(m, M_notFound)
        badKey ==
          \/ Includes(m, M_keyInvalid)
          \/ Includes(m, M_keyNotValid)
          \/ \E i \in 1..(Len(m) - 1) :
               /\ m[i] \in {"permission", "Permission", "PERMISSION"}
               /\ m[i + 1] \in {"denied", "Denied", "DENIED"}
    IN op.out =
         IF notFound
         THEN [userFriendlyMessage |-> MSG_modelNotFound, shouldOpenDialog |-> TRUE]
         ELSE IF badKey
              THEN [userFriendlyMessage |-> MSG_keyInvalid, shouldOpenDialog |-> TRUE]
              ELSE [userFriendlyMessage |-> MSG_failedPrefix \o m,
                    shouldOpenDialog |-> FALSE]

\* a message matching both rules was classified by the first
C11_Witness ==
  /\ op.name = "classify"
  /\ Includes(op.error.message, M_keyInvalid)
  /\ Includes(op.error.message, M_notFound)
  /\ op.out.userFriendlyMessage = MSG_modelNotFound

\* a message with permission denied in capitals was classified by the second
C11_WitnessCase ==
  /\ op.name = "classify"
  /\ op.error.message = <<"quota", "PERMISSION", "DENIED">>
  /\ op.out.userFriendlyMessage = MSG_keyInvalid

\* a message matching no rule was wrapped
C11_WitnessGeneric ==
  /\ op.name = "classify"
  /\ op.error.message = <<"permission", "not", "denied">>
  /\ ~op.out.shouldOpenDialog

\* C12: the inferred aspect ratio is portrait if the image prompt contains
\* "9:16" or "vertical", whatever else it contains; else landscape if it
\* contains "16:9" or "landscape"; else the ratio of the request.
C12_Inference ==
  op.name = "infer" =>
    LET portrait == \/ Includes(op.image_prompt, M_9_16)
                    \/ Includes(op.image_prompt, M_vertical)
        landscape == \/ Includes(op.image_prompt, M_16_9)
                     \/ Includes(op.image_prompt, M_landscape)
    IN op.out = IF portrait THEN PORTRAIT
                ELSE IF landscape THEN LANDSCAPE
                ELSE op.requested

\* a prompt with other text first, then a landscape and a portrait marker
C12_Witness ==
  /\ op.name = "infer"
  /\ op.image_prompt = <<"a", " ">> \o M_16_9 \o M_vertical
  /\ op.requested = LANDSCAPE
  /\ op.out = PORTRAIT

\* a prompt without a marker keeps the ratio of the request
C12_WitnessNone ==
  /\ op.name = "infer"
  /\ op.image_prompt = <<"V", "e", "r", "t", "i", "c", "a", "l", "a", " ">>
  /\ op.out = op.requested

\* the sample decodeAudioData is to produce for channel c at frame f (from 0):
\* the signed 16-bit integer at interleaved index f * channels + c
SampleAt(bytes, channels, c, f) ==
  LET k == f * channels + c
      lo == bytes[2 * k + 1]
      hi == bytes[2 * k + 2]
  IN lo + 256 * hi - (IF hi >= 128 THEN 65536 ELSE 0)

\* the decoded buffer is as long as the payload says, sample by sample what
\* the payload holds, and within [-1, 1] (samples are numerators over 32768)
Decoded(bytes, channels, out) ==
  /\ out.ok
  /\ DOMAIN out.value = 0..(channels - 1)
  /\ \A c \in 0..(channels - 1) :
       /\ Len(out.value[c]) = (Len(bytes) \div 2) \div channels
       /\ \A f \in 0..(Len(out.value[c]) - 1) :
            /\ out.value[c][f + 1] = SampleAt(bytes, channels, c, f)
            /\ out.value[c][f + 1] >= -32768
            /\ out.value[c][f + 1] <= 32768

C13_Calls ==
  /\ [][ (Started(op') /\ op'.gen.pc = "calls") =>
           LET g == op'.gen IN
           /\ g.video = "pending"
           /\ IF g.params.mode = STORY_TO_VIDEO
              THEN LET ip == g.params.prompt.script.image_prompt IN
                   /\ g.speech = "pending"
                   /\ g.videoParams =
                        [g.params EXCEPT
                           !.prompt = TextPrompt(ip),
                           !.aspectRatio =
                              IF Includes(ip, M_9_16) \/ Includes(ip, M_vertical)
                              THEN PORTRAIT
                              ELSE IF \/ Includes(ip, M_16_9)
                                      \/ Includes(ip, M_landscape)
                                   THEN LANDSCAPE
                                   ELSE g.params.aspectRatio]
              ELSE /\ g.speech = "none"
                   /\ g.videoParams = g.params ]_vars
  /\ [][ (op'.name \in {"video", "speech"} /\ op'.gen.outcome = "success") =>
           LET g == op'.gen IN
           IF g.params.mode = STORY_TO_VIDEO
           THEN /\ g.video = "ok" /\ g.speech = "ok"
                /\ audioBuffer' # Null
                /\ audioBuffer'.audio = Made(g.params)
           ELSE g.video = "ok" /\ g.speech = "none" ]_vars

\* a story declared landscape whose image prompt says 9:16 succeeded: the
\* video call was made with portrait and the audio buffer is stored
C13_Witness ==
  /\ op.name \in {"video", "speech"} /\ op.hit
  /\ op.gen.outcome = "success"
  /\ op.gen.params.mode = STORY_TO_VIDEO
  /\ op.gen.params.aspectRatio = LANDSCAPE
  /\ op.gen.videoParams.aspectRatio = PORTRAIT
  /\ audioBuffer # Null

\* C15: at most one source is active at any time, none once the result view
\* is torn down, and a play event that starts a source leaves exactly that
\* one active: the source started before it has been stopped.
C15_OneSource ==
  /\ [](active <= 1 /\ (view = Null => active = 0))
  /\ [][ (op'.name = "play" /\ op'.hit) =>
           /\ view'.source = "playing"
           /\ active' = 1 ]_vars

\* the video was started again while the source of the play before was active
C15_Witness ==
  /\ op.name = "play" /\ op.hit /\ op.replay
  /\ view.source = "playing" /\ active = 1

\* C16: every audio context that is open belongs to what is shown: the
\* context of the result view's effect is open only while that view is
\* mounted, and a context opened to decode a narration only while the view
\* shows the buffer decoded with it.
C16_ContextsReleased ==
  \A c \in contexts :
    /\ view # Null
    /\ c.by = "handleGenerate" =>
         (view.buffer # Null /\ view.buffer.audio = c.request)

\* C17: every failure inside an attempt (a malformed story script, a failing
\* video or speech call, a malformed audio payload) puts the session in Error
\* with a classified message that is not empty; and, every issued call
\* settling in the end, a session that is Loading reaches Success or Error.
C17_FailuresReported ==
  /\ [][ (op'.gen # Null /\ op'.gen.outcome = "failed") =>
           /\ appState' = ERROR
           /\ errorMessage' # Null
           /\ Len(errorMessage'.text) > 0
           /\ \/ errorMessage'.text \in {MSG_modelNotFound, MSG_keyInvalid}
              \/ SubSeq(errorMessage'.text, 1, 1) = MSG_failedPrefix ]_vars
  /\ (appState = LOADING) ~> (appState \in {SUCCESS, ERROR})

\* both calls of a story resolved and the payload could not be decoded
C17_Witness ==
  /\ op.name \in {"video", "speech"} /\ op.hit
  /\ op.gen.decoded /\ op.gen.outcome = "failed"
  /\ appState = ERROR
  /\ errorMessage = Text(MSG_failedPrefix \o RangeError.message)

\* a story script that does not parse failed the attempt at once
C17_WitnessMalformed ==
  /\ op.name = "submit" /\ op.gen.outcome = "failed"
  /\ appState = ERROR
  /\ errorMessage = Text(MSG_failedPrefix \o SyntaxError.message)

\* C18: at most one generation attempt is in flight at any time.
C18_OneAttempt ==
  \A g \in BagToSet(gens) :
    g.pc = "calls" =>
      /\ CopiesIn(g, gens) = 1
      /\ \A h \in BagToSet(gens) : h.pc = "calls" => h = g

\* C19: whenever the session is Success, the video resource, payload and
\* handle, and the audio buffer if there is one, were made for the request
\* that is stored as the last request.
C19_ResultOfLastRequest ==
  appState = SUCCESS =>
    /\ lastConfig # Null
    /\ videoUrl = [url |-> Made(lastConfig)]
    /\ lastVideoBlob = [blob |-> Made(lastConfig)]
    /\ lastVideoObject = [video |-> Made(lastConfig)]
    /\ audioBuffer # Null => audioBuffer.audio = Made(lastConfig)

\* C20: whenever the session is Success, a last request is stored and the
\* video resource, payload and handle are all set.
C20_SuccessComplete ==
  appState = SUCCESS =>
    /\ lastConfig # Null
    /\ videoUrl # Null
    /\ lastVideoBlob # Null
    /\ lastVideoObject # Null

====
